---------------------------- MODULE Spec2Model ----------------------------
(***************************************************************************)
(* Gateway connection lifecycle of eludrs (src/src/gateway.rs):            *)
(* Events::connect, Events::reconect, the heartbeat tasks they spawn and   *)
(* the Stream implementation Events::poll_next with its GatewayData cache. *)
(***************************************************************************)
EXTENDS Integers, Sequences, FiniteSets, TLC

\* ------------------------------------------------------------------ bounds
\* sessions (sockets whose handshake reached the heartbeat spawn) per run
MaxSess == 3
\* reconnection tasks alive at the same time
MaxTasks == 2
\* user ids carried by frames: 1..MaxUserId
MaxUserId == 2
\* length of the users vector of an Authenticated frame
MaxAuthUsers == 2
\* heartbeat_interval values carried by Hello: 0..MaxInterval
MaxInterval == 1
\* length of the users vector of an Authenticated frame in the cache
\* specification
MaxCacheVec == 1

\* ------------------------------------------------------ program constants
InitialWait == 1
BackoffCap == 64

\* ------------------------------------------------------------- value sets
Sessions == 1..MaxSess
Tasks == 1..MaxTasks
UserIds == 1..MaxUserId
Statuses == {"online", "offline"}
Intervals == 0..MaxInterval
Msgs == {"m1", "m2"}

\* todel::User, reduced to the fields the gateway reads (id, status)
Users == [id : UserIds, status : Statuses]
\* Option::None for Option<User>
NoUser == [id |-> 0, status |-> "none"]

UserVecs == UNION {[1..n -> Users] : n \in 0..MaxAuthUsers}

\* todel::ServerPayload, the variants poll_next matches on
ServerPayloads ==
    [op : {"PONG", "RATE_LIMIT"}]
    \cup [op : {"HELLO"}, heartbeat_interval : Intervals]
    \cup [op : {"AUTHENTICATED"}, user : Users, users : UserVecs]
    \cup [op : {"MESSAGE_CREATE"}, msg : Msgs]
    \cup [op : {"USER_UPDATE"}, user : Users]
    \cup [op : {"PRESENCE_UPDATE"}, user_id : UserIds, status : Statuses]

\* a text body that is no ServerPayload (malformed JSON or unknown shape)
Garbage == [op |-> "?"]
TextBodies == ServerPayloads \cup {Garbage}

\* serde_json::from_str::<ServerPayload>(&msg)
FromStr(body) ==
    IF body \in ServerPayloads THEN [ok |-> TRUE, payload |-> body]
    ELSE [ok |-> FALSE, payload |-> Garbage]

VARIABLES
    cpc,       \* position of get_events / Events::connect
    chb,       \* heartbeat_interval bound by connect's Hello match
    cfail,     \* the failure connect met: "none", "transport", "nohello", "auth"
    cAttempts, \* connect_async calls made by connect
    pingLock,  \* owner of the ping mutex: 0 free, -1 connect, t a reconect task
    ping,      \* Events.ping: 0 is None, s the JoinHandle of session s's heartbeat
    rx,        \* Events.rx: 0 is None, s the receiver of session s
    nSess,     \* sessions created so far
    sock,      \* per session: the socket as the receiver sees it
    hb,        \* per session: the heartbeat task
    task,      \* per slot: a spawned Events::reconect future
    data,      \* Events.data (GatewayData)
    pullPc,    \* "out": poll_next not running, "loop": inside its loop
    last,      \* what the latest poll_next iteration did (observation)
    woken,     \* the consumer's waker has been woken by a reconect
    dropped,   \* the consumer dropped the Events value
    opened,    \* newest session whose receiver a connect/reconect installed
    dataLock,  \* owner of the data mutex: 0 free, Consumer inside poll_next
    rxLock,    \* owner of the rx mutex: 0 free, Consumer, t a reconect task
    rxWait,    \* the thread queued on the rx mutex: 0 none, Consumer, t
    runOn      \* where the task that was handed rx has been queued to run:
               \* 0 any worker thread, Consumer the consumer's own thread

vars == <<cpc, chb, cfail, cAttempts, pingLock, ping, rx, nSess, sock, hb, task, data,
          pullPc, last, woken, dropped, opened, dataLock, rxLock,
          rxWait, runOn>>

connVars == <<cpc, chb, cfail, cAttempts>>
lockVars == <<dataLock, rxLock, rxWait, runOn>>
pullVars == <<data, pullPc, last, lockVars>>

\* the thread that calls poll_next, as owner of the data and rx mutexes
Consumer == -2

\* what new_rx.next().await yields during a handshake
HandshakeItems ==
    [k : {"text"}, body : {Garbage, [op |-> "PONG"]}
                          \cup [op : {"HELLO"}, heartbeat_interval : Intervals]]
    \cup [k : {"end"}, body : {Garbage}]

\* ---------------------------------------------------------------- helpers
Min(a, b) == IF a < b THEN a ELSE b

IdleTask == [pc |-> "idle", wait |-> 0, h |-> 0, sess |-> 0,
             slept |-> 0, prevSlept |-> 0, sent |-> FALSE, authFailed |-> FALSE]

EmptyData == [user |-> NoUser, users |-> [i \in UserIds |-> NoUser]]

\* no Event: the iteration did not break with Poll::Ready(Some(..))
NoEvent == [type |-> "none"]

NoLast == [res |-> "none", item |-> "none", op |-> "-", from |-> 0,
           newest |-> 0, authIds |-> {}, spawned |-> FALSE, event |-> NoEvent]

\* heartbeat task states: "jitter" is a reconect heartbeat that was spawned and
\* not yet polled ("jitter0" when its heartbeat_interval is 0), "drawing" and
\* "drawing0" are that task in its first poll, before the jitter sleep parks
\* it, "pinging" is not being polled and sends a Ping in its next poll
\* (spawned by connect and not yet polled, or parked at a sleep), "sending" is
\* being polled by a worker, between the sleep and tx.send, "cancelling" is a
\* task aborted while it was being polled: it runs on to its next await and
\* is cancelled there; "stopped" ended on a send error, "panicked",
\* "aborted"; "gone" is an ended task whose JoinHandle was overwritten
RunningStates ==
    {"jitter", "jitter0", "drawing", "drawing0", "pinging", "sending",
     "cancelling"}

Running(s) == hb[s] \in RunningStates

\* *ping = Some(tokio::spawn(..)): the new task starts, its handle is stored
StoreHandle(h, s, st) == [h EXCEPT ![s] = st]

\* tasks that have ended and whose handle is no longer stored leave no trace
Forget(h, p) ==
    [x \in Sessions |-> IF x # p /\ h[x] \in {"stopped", "panicked", "aborted"}
                        THEN "gone" ELSE h[x]]

\* the receiver that *rx = Some(new_rx) replaces is dropped
DropReceiver(so, old, new) ==
    [x \in Sessions |-> IF x = old /\ x # new THEN "gone" ELSE so[x]]

\* JoinHandle::abort on the stored handle, if any: a finished task stays as it
\* is; a task that is not being polled is cancelled at once; a task that a
\* worker is polling is cancelled only when that poll returns, and the poll
\* that is about to panic panics all the same
AbortStored(h, p) ==
    [s \in Sessions |->
        IF s # p THEN h[s]
        ELSE IF h[s] \in {"jitter", "jitter0", "pinging"} THEN "aborted"
        ELSE IF h[s] \in {"drawing", "sending"} THEN "cancelling"
        ELSE h[s]]

\* mutant of GuardHeldBy: the guard is dropped right after the abort
GuardReleasedEarly(owner) == 0

\* the ping MutexGuard lives until the end of connect / reconect
GuardHeldBy(owner) == owner

\* mutant of InstallRx: the slot is left empty
InstallRxNone(old, new) == 0

\* *rx.lock().await = Some(new_rx)
InstallRx(old, new) == new

\* ------------------------------------------------------------------- Init
\* Events::new: no receiver, no ping handle, default GatewayData
Init ==
    /\ cpc = "new"
    /\ chb = 0
    /\ cfail = "none"
    /\ cAttempts = 0
    /\ pingLock = 0
    /\ ping = 0
    /\ rx = 0
    /\ nSess = 0
    /\ sock = [s \in Sessions |-> "none"]
    /\ hb = [s \in Sessions |-> "none"]
    /\ task = [t \in Tasks |-> IdleTask]
    /\ data = EmptyData
    /\ pullPc = "out"
    /\ last = NoLast
    /\ woken = FALSE
    /\ dropped = FALSE
    /\ opened = 0
    /\ dataLock = 0
    /\ rxLock = 0
    /\ rxWait = 0
    /\ runOn = 0

\* ------------------------------------------------- Events::connect (93-147)
\* line 95-98: take the ping lock, abort a stored heartbeat
ConnectLock ==
    /\ cpc = "new"
    /\ pingLock = 0
    /\ pingLock' = GuardHeldBy(-1)
    /\ hb' = AbortStored(hb, ping)
    /\ cpc' = "transport"
    /\ UNCHANGED <<chb, cfail, cAttempts, ping, rx, nSess, sock, task, woken,
                   dropped, opened, pullVars>>

\* mutant of ConnectFailPc: connect retries like reconect does
ConnectRetryPc == "transport"

\* where connect goes on a failure: `?` and bail! return Err to get_events,
\* which returns it to the caller
ConnectFailPc == "err"

\* connect returns Err: the guard is dropped, get_events drops events
ConnectFail(why) ==
    /\ cpc' = ConnectFailPc
    /\ cfail' = why
    /\ pingLock' = 0
    /\ UNCHANGED <<chb, ping, rx, nSess, sock, hb, task, woken, dropped,
                   opened, pullVars>>

\* line 99: connect_async(&self.gateway_url).await?
ConnectTransport ==
    /\ cpc = "transport"
    /\ cAttempts' = cAttempts + 1
    /\ \E ok \in BOOLEAN :
        IF ok
        THEN /\ cpc' = "hello"
             /\ UNCHANGED <<chb, cfail, pingLock, ping, rx, nSess, sock, hb,
                            task, woken, dropped, opened, pullVars>>
        ELSE ConnectFail("transport")

\* line 102-106, 140-142: rx.next().await while waiting for Hello; anything
\* but a text frame (Close, Binary, Err, end of stream) is a failure
ConnectRecv ==
    /\ cpc = "hello"
    /\ \E o \in HandshakeItems :
        IF o.k = "text"
        THEN LET r == FromStr(o.body) IN
             IF r.ok /\ r.payload.op = "HELLO"
             THEN /\ cpc' = "jitter"
                  /\ chb' = r.payload.heartbeat_interval
                  /\ UNCHANGED <<cfail, cAttempts, pingLock, ping, rx, nSess,
                                 sock, hb, task, woken, dropped, opened,
                                 pullVars>>
             ELSE UNCHANGED vars
        ELSE ConnectFail("nohello") /\ cAttempts' = cAttempts

\* line 107-110: gen_range(0..heartbeat_interval) panics on the empty range
ConnectJitter ==
    /\ cpc = "jitter"
    /\ IF chb = 0
       THEN /\ cpc' = "panic"
            /\ pingLock' = 0
       ELSE /\ \E d \in 0..(chb - 1) : cpc' = "auth"
            /\ pingLock' = pingLock
    /\ UNCHANGED <<chb, cfail, cAttempts, ping, rx, nSess, sock, hb, task,
                   woken, dropped, opened, pullVars>>

\* line 111-146: send Authenticate; on success spawn the heartbeat (which
\* pings at once), store its handle, install the receiver, return Ok
ConnectAuth ==
    /\ cpc = "auth"
    /\ rxLock = 0
    /\ \E ok \in BOOLEAN :
        IF ok
        THEN LET s == nSess + 1 IN
             /\ nSess' = s
             /\ sock' = [sock EXCEPT ![s] = "open"]
             /\ hb' = StoreHandle(hb, s, "pinging")
             /\ ping' = s
             /\ rx' = InstallRx(rx, s)
             /\ opened' = s
             /\ cpc' = "ok"
             /\ pingLock' = 0
             /\ UNCHANGED <<chb, cfail, cAttempts, task, woken, dropped,
                            pullVars>>
        ELSE ConnectFail("auth") /\ cAttempts' = cAttempts

\* ----------------------------------------------- Events::reconect (149-239)
\* mutant of NextWait: the cap is tested with <=
NextWaitLateCap(wait) == IF wait <= BackoffCap THEN wait * 2 ELSE wait

\* line 232-234: if wait < 64 { wait *= 2 }
NextWait(wait) == IF wait < BackoffCap THEN wait * 2 ELSE wait

\* line 157-161: lock the ping mutex (held to the end), abort the stored heartbeat
ReconLock(t) ==
    /\ task[t].pc = "lock"
    /\ pingLock = 0
    /\ pingLock' = GuardHeldBy(t)
    /\ hb' = AbortStored(hb, ping)
    /\ task' = [task EXCEPT ![t].pc = "transport"]
    /\ UNCHANGED <<connVars, ping, rx, nSess, sock, woken, dropped,
                   opened, pullVars>>

\* line 163, 225-235: connect_async; on Err sleep `wait` seconds, then double it
ReconTransport(t) ==
    /\ task[t].pc = "transport"
    /\ \E ok \in BOOLEAN :
        task' = IF ok
                THEN [task EXCEPT ![t].pc = "hello"]
                ELSE [task EXCEPT ![t].prevSlept = task[t].slept,
                                  ![t].slept = task[t].wait,
                                  ![t].wait = NextWait(task[t].wait)]
    /\ UNCHANGED <<connVars, pingLock, ping, rx, nSess, sock, hb, woken,
                   dropped, opened, pullVars>>

\* mutant of NoHelloPc: reconect gives up when the socket ends before Hello
NoHelloGiveUpPc == "gaveup"

\* line 215-218: `continue 'outer` goes back to connect_async
NoHelloPc == "transport"

\* line 167-171, 215-218: new_rx.next().await while waiting for Hello; anything
\* but a text frame goes back to connect_async (continue 'outer) with no sleep;
\* heartbeat_interval (h) is bound only from a Hello to the end of its arm
ReconRecv(t) ==
    /\ task[t].pc = "hello"
    /\ \E o \in HandshakeItems :
        IF o.k = "text"
        THEN LET r == FromStr(o.body) IN
             IF r.ok /\ r.payload.op = "HELLO"
             THEN task' = [task EXCEPT ![t].pc = "auth",
                                       ![t].h = r.payload.heartbeat_interval]
             ELSE task' = task
        ELSE task' = [task EXCEPT ![t].pc = NoHelloPc, ![t].h = 0,
                                  ![t].authFailed = FALSE]
    /\ UNCHANGED <<connVars, pingLock, ping, rx, nSess, sock, hb, woken,
                   dropped, opened, pullVars>>

\* line 184-213: spawn the heartbeat (jitter first) and store its handle;
\* sentOk is what the Authenticate send on this connection returned
ReconSpawn(t, sentOk) ==
    LET s == nSess + 1 IN
    /\ nSess' = s
    /\ sock' = [sock EXCEPT ![s] = "open"]
    /\ hb' = StoreHandle(hb, s, IF task[t].h = 0 THEN "jitter0" ELSE "jitter")
    /\ ping' = s
    /\ task' = [task EXCEPT ![t].pc = "install", ![t].sess = s, ![t].h = 0,
                            ![t].sent = sentOk,
                            ![t].authFailed = task[t].authFailed \/ ~sentOk]

\* line 180-183: the send returned Err; `continue` reads the same socket again
ReconAuthFailed(t) ==
    /\ task' = [task EXCEPT ![t].pc = "hello", ![t].h = 0,
                            ![t].sent = FALSE, ![t].authFailed = TRUE]
    /\ UNCHANGED <<nSess, sock, hb, ping>>

\* line 172-213: send Authenticate; on Err `continue` reads the same socket
\* again; on Ok spawn the heartbeat (jitter first) and store its handle
ReconAuth(t) ==
    /\ task[t].pc = "auth"
    /\ \E ok \in BOOLEAN :
        IF ok THEN ReconSpawn(t, TRUE) ELSE ReconAuthFailed(t)
    /\ UNCHANGED <<connVars, pingLock, rx, woken, dropped, opened, pullVars>>

\* line 239: the ping guard of reconect is dropped when the function returns
ReleaseGuard(lock, owner) == IF lock = owner THEN 0 ELSE lock

\* the positions of reconect from the successful Authenticate send on:
\* before rx.lock() (221), queued on or handed the rx mutex, after the install
InstallPcs == {"install", "rxwait", "wake"}

\* line 221: the assignment under the rx guard: the new receiver replaces the
\* old, which is dropped
AssignRx(t) ==
    /\ rx' = InstallRx(rx, task[t].sess)
    /\ sock' = DropReceiver(sock, rx, rx')
    /\ opened' = IF task[t].sess > opened THEN task[t].sess ELSE opened

\* tokio's Mutex passes a released mutex to the queued waiter, if there is one
HandOver(waiter) == waiter

\* line 221: rx.lock().await. A free mutex is taken, the receiver assigned and
\* the guard, a temporary of the assignment, dropped with no await in between;
\* a mutex owned by poll_next queues the task
ReconInstall(t) ==
    /\ task[t].pc = "install"
    /\ IF rxLock = 0
       THEN /\ AssignRx(t)
            /\ task' = [task EXCEPT ![t].pc = "wake"]
            /\ UNCHANGED rxWait
       ELSE /\ rxWait' = t
            /\ task' = [task EXCEPT ![t].pc = "rxwait"]
            /\ UNCHANGED <<rx, sock, opened>>
    /\ UNCHANGED <<connVars, pingLock, ping, nSess, hb, woken, dropped, data,
                   pullPc, last, dataLock, rxLock, runOn>>

\* the consumer's thread is inside poll_next, where it runs nothing else
InPollNext == pullPc = "loop" \/ dataLock = Consumer

\* line 221 after a wait: poll_next handed the mutex to the queued task; once
\* a thread runs the task it assigns the receiver and drops the guard. A task
\* queued on the consumer's thread runs when that thread has left poll_next
ReconGranted(t) ==
    /\ task[t].pc = "rxwait"
    /\ rxLock = t
    /\ runOn = Consumer => ~InPollNext
    /\ AssignRx(t)
    /\ rxLock' = HandOver(rxWait)
    /\ rxWait' = 0
    /\ runOn' = 0
    /\ task' = [task EXCEPT ![t].pc = "wake"]
    /\ UNCHANGED <<connVars, pingLock, ping, nSess, hb, woken, dropped, data,
                   pullPc, last, dataLock>>

\* line 222-239: leave the loop, wake the consumer, return: the ping guard is
\* dropped and the task ends
ReconWake(t) ==
    /\ task[t].pc = "wake"
    /\ hb' = Forget(hb, ping)
    /\ woken' = TRUE
    /\ pingLock' = ReleaseGuard(pingLock, t)
    /\ task' = [task EXCEPT ![t] = IdleTask]
    /\ UNCHANGED <<connVars, ping, rx, nSess, sock, dropped, opened, pullVars>>

\* ------------------------------------- heartbeat tasks (120-137, 184-212)
\* line 185: a worker starts the first poll of a reconect heartbeat
PingStart(s) ==
    /\ hb[s] \in {"jitter", "jitter0"}
    /\ hb' = [hb EXCEPT ![s] = IF hb[s] = "jitter0" THEN "drawing0" ELSE "drawing"]
    /\ UNCHANGED <<connVars, pingLock, ping, rx, nSess, sock, task,
                   woken, dropped, opened, pullVars>>

\* line 185-188: the jitter sleep of a reconect heartbeat; gen_range(0..0) panics
PingJitter(s) ==
    /\ hb[s] \in {"drawing", "drawing0"}
    /\ hb' = [hb EXCEPT ![s] = IF hb[s] = "drawing0" THEN "panicked" ELSE "pinging"]
    /\ UNCHANGED <<connVars, pingLock, ping, rx, nSess, sock, task,
                   woken, dropped, opened, pullVars>>

\* line 121, 189: a worker starts to poll the task: its first poll, or the
\* poll after the sleep is over
PingWake(s) ==
    /\ hb[s] = "pinging"
    /\ hb' = [hb EXCEPT ![s] = "sending"]
    /\ UNCHANGED <<connVars, pingLock, ping, rx, nSess, sock, task,
                   woken, dropped, opened, pullVars>>

\* line 121-136, 189-211: send Ping; Ok sleeps and loops, Err ends the task
PingSend(s) ==
    /\ hb[s] = "sending"
    /\ \E ok \in BOOLEAN :
        hb' = [hb EXCEPT ![s] = IF ok THEN "pinging" ELSE "stopped"]
    /\ UNCHANGED <<connVars, pingLock, ping, rx, nSess, sock, task,
                   woken, dropped, opened, pullVars>>

\* line 121-136, 185-211: the poll during which the abort came returns: the
\* task has drawn its jitter, or sent its Ping (a failed send ends it just
\* the same), reaches the sleep and is cancelled there; nothing is left of
\* it once its handle is replaced
PingLast(s) ==
    /\ hb[s] = "cancelling"
    /\ hb' = [hb EXCEPT ![s] = IF s = ping THEN "aborted" ELSE "gone"]
    /\ UNCHANGED <<connVars, pingLock, ping, rx, nSess, sock, task,
                   woken, dropped, opened, pullVars>>

\* --------------------------------------------- Events::poll_next (245-317)
\* the kinds of item rx.poll_next_unpin(cx) yields besides a text frame:
\* another message (Binary, Ping, Pong, Frame), a Close frame, the end of the
\* stream, an error after which the stream still delivers ("err") or has
\* ended ("errEnd"), Poll::Pending
ItemKinds == {"other", "close", "none", "err", "errEnd", "pending"}

\* what rx.poll_next_unpin(cx) yields on the receiver of session s, the
\* environment offering text bodies `bodies` and item kinds `kinds`; a socket
\* that closed or ended only yields the end of the stream
PollItems(s, bodies, kinds) ==
    IF sock[s] = "open"
    THEN [k : {"text"}, body : bodies] \cup [k : kinds, body : {Garbage}]
    ELSE [k : {"none"} \cap kinds, body : {Garbage}]

LiveTasks == {t \in Tasks : task[t].pc # "idle"}

\* reconect tasks that have not sent their Authenticate yet
PendingTasks == {t \in Tasks : task[t].pc \in {"lock", "transport", "hello", "auth"}}

\* tokio::spawn(Events::reconect(..)) has a free slot and a session left for
\* the new task after every pending one got its own
CanSpawn ==
    /\ \E t \in Tasks : task[t].pc = "idle"
    /\ nSess + Cardinality(PendingTasks) < MaxSess

FreeSlot == CHOOSE t \in Tasks : task[t].pc = "idle"

\* line 157: a new reconect future starts with wait = 1
NewTask == [IdleTask EXCEPT !.pc = "lock", !.wait = InitialWait]

\* line 258-262: data.user = Some(user); insert every user under its id
RECURSIVE InsertAll(_, _)
InsertAll(users, vec) ==
    IF vec = <<>> THEN users
    ELSE InsertAll([users EXCEPT ![Head(vec).id] = Head(vec)], Tail(vec))

ApplyAuthenticated(d, p) ==
    [user |-> p.user, users |-> InsertAll(d.users, p.users)]

\* mutant of ApplyUserUpdate: the update is not stored
ApplyUserUpdateLost(d, p) == d

\* line 269: data.users.insert(update.id, update.clone())
ApplyUserUpdate(d, p) ==
    [d EXCEPT !.users[p.user.id] = p.user]

\* mutant of ApplyPayload: a PresenceUpdate stores its status in the cache
ApplyPayloadPresenceStored(d, p) ==
    CASE p.op = "AUTHENTICATED" -> ApplyAuthenticated(d, p)
      [] p.op = "USER_UPDATE" -> ApplyUserUpdate(d, p)
      [] p.op = "PRESENCE_UPDATE" /\ d.users[p.user_id] # NoUser ->
            [d EXCEPT !.users[p.user_id].status = p.status]
      [] OTHER -> d

\* the cache after a decoded payload (254-283)
ApplyPayload(d, p) ==
    CASE p.op = "AUTHENTICATED" -> ApplyAuthenticated(d, p)
      [] p.op = "USER_UPDATE" -> ApplyUserUpdate(d, p)
      [] OTHER -> d

\* mutant of Yields: a Hello breaks out of the loop too
YieldsHelloToo(p) ==
    p.op \in {"AUTHENTICATED", "MESSAGE_CREATE", "USER_UPDATE",
              "PRESENCE_UPDATE", "HELLO"}

\* payloads that break out of the loop with Poll::Ready(Some(event))
Yields(p) ==
    p.op \in {"AUTHENTICATED", "MESSAGE_CREATE", "USER_UPDATE", "PRESENCE_UPDATE"}

VecIds(vec) == {vec[i].id : i \in 1..Len(vec)}

Keys(users) == {i \in UserIds : users[i] # NoUser}

\* mutant of OnClosed: a closed socket ends the stream
OnClosedEnds(item) == [res |-> "end", spawn |-> FALSE]

\* line 286-297, 301-312: spawn reconect with the waker, return Poll::Pending
OnClosed(item) == [res |-> "pending", spawn |-> TRUE]

\* line 313: `_ => {}` for Poll::Ready(Some(Err(_))): go round the loop
OnRecvError(item) == [res |-> "skip", spawn |-> FALSE]

\* line 250-314: the match on the polled item, the cache aside
Outcome(item) ==
    CASE item.k = "text" ->
            LET r == FromStr(item.body) IN
            IF r.ok /\ Yields(r.payload)
            THEN [res |-> "event", spawn |-> FALSE]
            ELSE [res |-> "skip", spawn |-> FALSE]
      [] item.k = "other" -> [res |-> "skip", spawn |-> FALSE]
      [] item.k \in {"close", "none"} -> OnClosed(item)
      [] item.k \in {"err", "errEnd"} -> OnRecvError(item)
      [] OTHER -> [res |-> "pending", spawn |-> FALSE]

\* Option<Status> of old_status: "none" is Option::None
NoStatus == "none"

\* mutant of OldStatus: the lookup always misses
OldStatusMissing(d, id) == NoStatus

\* line 276-278: data.users.get(&user_id).map(|u| u.status.clone())
OldStatus(d, id) ==
    IF d.users[id] = NoUser THEN NoStatus ELSE d.users[id].status

\* line 263-281: the Event a yielding payload breaks with, d the cache before
\* the payload is applied (insert returns the previous value)
EventOf(d, p) ==
    CASE p.op = "AUTHENTICATED" -> [type |-> "Authenticated"]
      [] p.op = "MESSAGE_CREATE" -> [type |-> "Message", msg |-> p.msg]
      [] p.op = "USER_UPDATE" ->
            [type |-> "UserUpdate", old_user |-> d.users[p.user.id],
             user |-> p.user]
      [] p.op = "PRESENCE_UPDATE" ->
            [type |-> "PresenceUpdate", old_status |-> OldStatus(d, p.user_id),
             user_id |-> p.user_id, status |-> p.status]
      [] OTHER -> NoEvent

\* one iteration of the loop of poll_next on the polled item, under the data
\* and rx locks
PollItem(item) ==
    LET o == Outcome(item)
        r == FromStr(item.body)
        decoded == item.k = "text" /\ r.ok
    IN
    /\ o.spawn => CanSpawn
    /\ data' = IF decoded THEN ApplyPayload(data, r.payload) ELSE data
    /\ sock' = IF item.k \in {"close", "none", "errEnd"}
               THEN [sock EXCEPT ![rx] = "closed"] ELSE sock
    /\ task' = IF o.spawn THEN [task EXCEPT ![FreeSlot] = NewTask]
               ELSE task
    /\ pullPc' = IF o.res = "skip" THEN "loop" ELSE "out"
    /\ woken' = FALSE
    /\ last' = [res |-> o.res,
                item |-> item.k,
                op |-> IF decoded THEN r.payload.op ELSE "-",
                from |-> rx,
                newest |-> opened,
                authIds |-> IF decoded /\ r.payload.op = "AUTHENTICATED"
                            THEN VecIds(r.payload.users) ELSE {},
                spawned |-> o.spawn,
                event |-> IF o.res = "event" THEN EventOf(data, r.payload)
                          ELSE NoEvent]

\* poll_next while its loop runs: the receiver is polled with the environment
\* offering text bodies `bodies` and item kinds `kinds`
PollIterOf(bodies, kinds) ==
    /\ cpc = "ok"
    /\ ~dropped
    /\ IF rx = 0
       THEN /\ pullPc' = "loop"
            /\ UNCHANGED <<data, last, sock, task, woken>>
       ELSE \E item \in PollItems(rx, bodies, kinds) : PollItem(item)
    /\ UNCHANGED <<connVars, pingLock, ping, rx, nSess, hb, dropped, opened>>

\* the account the token belongs to
Self == [id |-> 1, status |-> "online"]

\* the text bodies the gateway sends in the lifecycle specification
LifecycleBodies ==
    {Garbage, [op |-> "MESSAGE_CREATE", msg |-> "m1"],
     [op |-> "AUTHENTICATED", user |-> Self, users |-> <<Self>>]}

\* line 247-248 and the end of the loop body: one iteration as a single
\* step, both guards taken at its start and dropped at its end
AtomicPoll(bodies, kinds) ==
    /\ dataLock = 0
    /\ rxLock = 0
    /\ PollIterOf(bodies, kinds)
    /\ UNCHANGED lockVars

PollIter == AtomicPoll(LifecycleBodies, ItemKinds)

\* ------------------------------------------------------------------- drop
\* Events has no Drop impl: its fields are dropped, a dropped JoinHandle
\* detaches its task, the Arcs cloned into reconect futures stay alive
DropEvents ==
    /\ cpc = "ok"
    /\ ~dropped
    /\ pullPc = "out"
    /\ dropped' = TRUE
    /\ UNCHANGED <<connVars, pingLock, ping, rx, nSess, sock, hb, task,
                   woken, opened, pullVars>>

\* ---------------------------------------------------------------- claims
HeartbeatsRunning == {s \in Sessions : Running(s)}

\* C1: a pull never returns end-of-stream or an error: whenever poll_next has
\* returned, it returned an Event or Poll::Pending, whatever the receiver
\* yielded (frames, Close, end of stream, errors)
C1_PullNeverEnds ==
    /\ last.res \in {"none", "skip", "event", "pending"}
    /\ (pullPc = "out" /\ last.res # "none") => last.res \in {"event", "pending"}

\* C1 witness: a pull that saw the socket close returned Pending
C1_Witness ==
    pullPc = "out" /\ last.item \in {"close", "none"} /\ last.res = "pending"

\* C3: every frame poll_next decodes comes from the newest session whose
\* receiver has been installed, never from a superseded one
C3_NoStaleFrames ==
    /\ last.op # "-" => last.from = last.newest
    /\ cpc = "ok" => rx = opened

\* C3 witness: a frame was decoded on a session a reconnection installed
C3_Witness == last.op # "-" /\ last.from >= 2 /\ last.res = "event"

\* C4: at most one heartbeat task runs at any time
C4_OneHeartbeat == Cardinality(HeartbeatsRunning) <= 1

\* C5: once the Events value is dropped, no heartbeat task and no
\* reconnection task is running
C5_DropStopsTasks ==
    dropped => (HeartbeatsRunning = {} /\ LiveTasks = {})

\* C6: within one reconnection the sleeps are 1, 2, 4, ..., 64, 64, ...: the
\* first is 1, each later one doubles the previous one up to 64, and a new
\* reconnection starts at 1
C6_Backoff ==
    \A t \in Tasks :
        task[t].pc # "idle" =>
            /\ task[t].slept = 0 => (task[t].wait = 1 /\ task[t].prevSlept = 0)
            /\ task[t].slept # 0 =>
                /\ task[t].slept =
                      IF task[t].prevSlept = 0 THEN 1
                      ELSE Min(2 * task[t].prevSlept, 64)
                /\ task[t].wait = Min(2 * task[t].slept, 64)
                /\ task[t].prevSlept <= task[t].slept
                /\ task[t].slept <= 64

\* C6 witness: a reconnection slept 64 seconds twice in a row
C6_Witness == \E t \in Tasks : task[t].slept = 64 /\ task[t].prevSlept = 64

\* C7: the initial connect makes one connection attempt; a failed transport
\* connect or a socket that ends before Hello makes it return an error, and
\* then no heartbeat was started and no receiver installed
C7_ConnectFailsFast ==
    /\ cAttempts <= 1
    /\ cfail # "none" => cpc = "err"
    /\ cpc = "err" =>
        /\ cfail # "none"
        /\ ping = 0 /\ rx = 0 /\ nSess = 0
        /\ \A s \in Sessions : hb[s] = "none"

\* C7 witness: connect failed because the socket ended before a Hello
C7_Witness == cpc = "err" /\ cfail = "nohello"

\* C8: a pull that gets a receive error launches a reconnection and returns
\* Pending, as it does for a closed socket
C8_ErrorReconnects ==
    last.item \in {"err", "errEnd"} => (last.spawned /\ last.res = "pending")

\* C9: when a reconnection has installed a new session and nothing was decoded
\* on it yet, the cache is empty
C9_FreshCacheOnReconnect ==
    (opened >= 2 /\ last.from < opened) => data = EmptyData

\* C10: right after an Authenticated frame is decoded, the keys of the user
\* map are exactly the ids of the users the frame carried
C10_AuthenticatedKeys ==
    last.op = "AUTHENTICATED" => Keys(data.users) = last.authIds

Next ==
    \/ ConnectLock
    \/ ConnectTransport
    \/ ConnectRecv
    \/ ConnectJitter
    \/ ConnectAuth
    \/ \E t \in Tasks : ReconLock(t)
    \/ \E t \in Tasks : ReconTransport(t)
    \/ \E t \in Tasks : ReconRecv(t)
    \/ \E t \in Tasks : ReconAuth(t)
    \/ \E t \in Tasks : ReconInstall(t)
    \/ \E t \in Tasks : ReconWake(t)
    \/ PollIter
    \/ DropEvents

\* the sessions' lifecycle; the steps of the heartbeat tasks, which read and
\* write nothing but hb, are in PingSpec
Spec == Init /\ [][Next]_vars

\* the frames the consumer pulls while the heartbeat tasks are followed
PingPoll == AtomicPoll({Garbage}, {"close", "none"})

PingNext ==
    \/ ConnectLock
    \/ ConnectTransport
    \/ ConnectRecv
    \/ ConnectJitter
    \/ ConnectAuth
    \/ \E t \in Tasks : ReconLock(t)
    \/ \E t \in Tasks : ReconTransport(t)
    \/ \E t \in Tasks : ReconRecv(t)
    \/ \E t \in Tasks : ReconAuth(t)
    \/ \E t \in Tasks : ReconInstall(t)
    \/ \E t \in Tasks : ReconWake(t)
    \/ \E s \in Sessions : PingStart(s)
    \/ \E s \in Sessions : PingJitter(s)
    \/ \E s \in Sessions : PingWake(s)
    \/ \E s \in Sessions : PingSend(s)
    \/ \E s \in Sessions : PingLast(s)
    \/ PingPoll
    \/ DropEvents

\* the sessions' lifecycle with every heartbeat task scheduled on its own
PingSpec == Init /\ [][PingNext]_vars

\* ------------------------------------------------------------- liveness
\* the outcomes of a reconnection attempt in which the gateway cooperates
ReconTransportOk(t) == ReconTransport(t) /\ task'[t].pc = "hello"
ReconHello(t) == ReconRecv(t) /\ task'[t].pc = "auth"
ReconAuthOk(t) == ReconAuth(t) /\ task'[t].pc = "install"

\* the liveness specification leaves the cache alone and the consumer keeps
\* the stream: the gateway sends undecodable text and messages only, and of
\* the other item kinds those that end a session or suspend the pull (the
\* kinds that only go round the loop do what undecodable text does).
\* Heartbeat tasks are spawned and aborted in it but their own steps, which
\* write nothing reconect or poll_next reads, are left out
LiveBodies == {Garbage, [op |-> "MESSAGE_CREATE", msg |-> "m1"]}

LiveKinds == {"close", "none", "errEnd", "pending"}

LivePoll == AtomicPoll(LiveBodies, LiveKinds)

LiveNext ==
    \/ ConnectLock
    \/ ConnectTransport
    \/ ConnectRecv
    \/ ConnectJitter
    \/ ConnectAuth
    \/ \E t \in Tasks : ReconLock(t)
    \/ \E t \in Tasks : ReconTransport(t)
    \/ \E t \in Tasks : ReconRecv(t)
    \/ \E t \in Tasks : ReconAuth(t)
    \/ \E t \in Tasks : ReconInstall(t)
    \/ \E t \in Tasks : ReconWake(t)
    \/ LivePoll

\* tokio runs every spawned task and grants its Mutex in FIFO order; the
\* gateway accepts a connection, sends Hello and takes the Authenticate frame
\* again and again; the consumer keeps pulling
Fairness ==
    /\ SF_vars(\E t \in Tasks : ReconLock(t))
    /\ SF_vars(\E t \in Tasks : ReconTransportOk(t))
    /\ SF_vars(\E t \in Tasks : ReconHello(t))
    /\ SF_vars(\E t \in Tasks : ReconAuthOk(t))
    /\ WF_vars(\E t \in Tasks : ReconInstall(t))
    /\ WF_vars(\E t \in Tasks : ReconWake(t))
    /\ WF_vars(LivePoll)

LiveSpec == Init /\ [][LiveNext]_vars /\ Fairness

\* a pull on session s saw it close and launched a reconnection
ClosureSeen(s) == last.spawned /\ last.from = s

CacheBodies ==
    {b \in TextBodies :
        b.op = "AUTHENTICATED" => (b.user = Self /\ Len(b.users) <= MaxCacheVec)}

CachePoll == AtomicPoll(CacheBodies, {"other", "pending"})

CacheNext ==
    \/ ConnectLock
    \/ ConnectTransport
    \/ ConnectRecv
    \/ ConnectJitter
    \/ ConnectAuth
    \/ CachePoll

CacheSpec == Init /\ [][CacheNext]_vars

\* the step in which poll_next consumes the text frame `body`
DecodeStep(body) ==
    /\ cpc = "ok" /\ ~dropped /\ rx # 0 /\ sock[rx] = "open"
    /\ PollItem([k |-> "text", body |-> body])

\* C11: a decoded UserUpdate(u) yields Event::UserUpdate with old_user the
\* cache entry for u.id before the frame (None when absent) and user u, and
\* leaves the cache mapping u.id to u, everything else as it was
C11_UserUpdate ==
    [][\A u \in Users :
        DecodeStep([op |-> "USER_UPDATE", user |-> u]) =>
            /\ last'.res = "event"
            /\ last'.event = [type |-> "UserUpdate",
                              old_user |-> data.users[u.id], user |-> u]
            /\ data'.users[u.id] = u
            /\ \A i \in UserIds \ {u.id} : data'.users[i] = data.users[i]
            /\ data'.user = data.user]_vars

\* C11 witness: a UserUpdate for a user already in the cache was yielded
C11_Witness ==
    /\ last.op = "USER_UPDATE"
    /\ last.event.type = "UserUpdate"
    /\ last.event.old_user # NoUser
    /\ last.event.old_user # last.event.user

\* C12: a decoded PresenceUpdate yields Event::PresenceUpdate with the
\* frame's user_id and status, and old_status None when the user is not
\* cached and the cached record's status otherwise
C12_PresenceUpdate ==
    [][\A id \in UserIds, st \in Statuses :
        DecodeStep([op |-> "PRESENCE_UPDATE", user_id |-> id, status |-> st]) =>
            /\ last'.res = "event"
            /\ last'.event.type = "PresenceUpdate"
            /\ last'.event.user_id = id
            /\ last'.event.status = st
            /\ data.users[id] = NoUser => last'.event.old_status = "none"
            /\ data.users[id] # NoUser =>
                   last'.event.old_status = data.users[id].status]_vars

\* C12 witness: a PresenceUpdate for a cached user carried its cached status
C12_Witness ==
    /\ last.event.type = "PresenceUpdate"
    /\ last.event.old_status \in Statuses
    /\ last.event.old_status # last.event.status

\* C13: of the decoded payloads exactly Authenticated, MessageCreate,
\* UserUpdate and PresenceUpdate are yielded, each as its own Event, in the
\* iteration that consumed it; Hello, Pong, RateLimit and undecodable text
\* yield nothing and leave poll_next in its loop, polling the next item
C13_OnlyEventsYielded ==
    /\ last.res = "event" <=>
          last.op \in {"AUTHENTICATED", "MESSAGE_CREATE", "USER_UPDATE",
                      "PRESENCE_UPDATE"}
    /\ last.res = "event" =>
          last.event.type =
             (CASE last.op = "AUTHENTICATED" -> "Authenticated"
                [] last.op = "MESSAGE_CREATE" -> "Message"
                [] last.op = "USER_UPDATE" -> "UserUpdate"
                [] last.op = "PRESENCE_UPDATE" -> "PresenceUpdate")
    /\ last.res # "event" => last.event = NoEvent
    /\ (last.item = "text"
          /\ last.op \in {"HELLO", "PONG", "RATE_LIMIT", "-"}) =>
          (last.res = "skip" /\ pullPc = "loop")
    /\ pullPc = "loop" <=> last.res = "skip"

\* C13 witness: a Hello was consumed and poll_next is still in its loop
C13_Witness == last.op = "HELLO" /\ last.res = "skip" /\ pullPc = "loop"

\* ------------------------------------------------- handshake and tasks
\* line 172-184, 111-120: a session number is given to a connection when its
\* Authenticate send returned Ok
AuthenticateSent(s) == s <= nSess

\* C14: on every session, initial or reconnected, the jitter sleep comes
\* before the Authenticate send: no session is still in its jitter sleep
\* once Authenticate has been sent on it
C14_JitterBeforeAuthenticate ==
    \A s \in Sessions :
        AuthenticateSent(s) =>
            hb[s] \notin {"jitter", "jitter0", "drawing", "drawing0"}

\* C15: during reconnection every failed attempt, a handshake that ends
\* before Hello included, sleeps the backoff before connect_async is called
\* again
C15_BackoffAfterEveryFailure ==
    [][\A t \in Tasks :
        (task[t].pc = "hello" /\ task'[t].pc = "transport") =>
            /\ task'[t].slept = task[t].wait
            /\ task'[t].prevSlept = task[t].slept
            /\ task'[t].wait = NextWait(task[t].wait)]_vars

\* C17: a Hello with heartbeat_interval 0 aborts neither the handshake nor
\* the heartbeat task
C17_ZeroIntervalProceeds ==
    /\ cpc # "panic"
    /\ \A s \in Sessions : hb[s] # "panicked"

\* C18: at most one reconect task exists at any time
C18_OneReconnectTask == Cardinality(LiveTasks) <= 1

\* C16: a receiver is installed and a heartbeat started only after
\* a successful Authenticate send on that connection, and a connection on
\* which an Authenticate send failed gets neither
C16_FailedSendNeverInstalls ==
    /\ \A t \in Tasks :
          task[t].pc \in InstallPcs => (task[t].sent /\ ~task[t].authFailed)
    /\ cfail = "auth" => (cpc = "err" /\ rx = 0 /\ ping = 0 /\ nSess = 0)

\* C19: once get_events returned Ok the receiver slot is never None, so the
\* loop of poll_next repeats only after an item it skipped
C19_ReceiverPresent ==
    cpc = "ok" =>
        /\ rx \in 1..nSess
        /\ pullPc = "loop" => last.res = "skip"

\* C19 witness: a closure was seen and reconect is under way, and the slot
\* still holds the closed receiver
C19_Witness ==
    /\ cpc = "ok"
    /\ sock[rx] = "closed"
    /\ \E t \in Tasks : task[t].pc \in {"transport", "hello", "auth"}

\* ------------------------------------------------------------ the locks
\* the lock specification: every iteration of poll_next in three steps, the
\* data guard, the rx guard, then the poll that ends with both dropped;
\* connect and reconect as before, the gateway and the consumer as in LiveSpec

\* line 247: block_on(self.data.lock()); the consumer starts an iteration
\* only if the model has room for the task the iteration may spawn
PullLockData ==
    /\ cpc = "ok"
    /\ ~dropped
    /\ dataLock = 0
    /\ sock[rx] = "open" \/ CanSpawn
    /\ dataLock' = Consumer
    /\ UNCHANGED <<connVars, pingLock, ping, rx, nSess, sock, hb, task, data,
                   pullPc, last, woken, dropped, opened, rxLock, rxWait,
                   runOn>>

\* line 248: block_on(self.rx.lock()), holding the data guard: a free mutex
\* is taken, a mutex owned by a reconect queues the consumer, whose thread
\* parks inside block_on
PullLockRx ==
    /\ dataLock = Consumer
    /\ rxLock # Consumer
    /\ rxWait # Consumer
    /\ IF rxLock = 0
       THEN rxLock' = Consumer /\ rxWait' = rxWait
       ELSE rxWait' = Consumer /\ rxLock' = rxLock
    /\ UNCHANGED <<connVars, pingLock, ping, rx, nSess, sock, hb, task, data,
                   pullPc, last, woken, dropped, opened, dataLock, runOn>>

\* what the receiver yields in the lock specification: text that is skipped
\* (the loop takes both mutexes again), a Close frame, or the end of the
\* stream (poll_next returns and the next call takes them again)
LockBodies == {Garbage}
LockKinds == {"close", "none"}

\* the runtime queues a task that is woken from a thread either where every
\* worker finds it or behind the thread that woke it
WakeQueues == {0, Consumer}

\* line 249-315: the poll under both guards, which are dropped when the loop
\* body ends or poll_next returns; dropping the rx guard hands the mutex to a
\* queued reconect and wakes that task from the consumer's thread
LockedPoll ==
    /\ dataLock = Consumer
    /\ rxLock = Consumer
    /\ PollIterOf(LockBodies, LockKinds)
    /\ dataLock' = 0
    /\ rxLock' = HandOver(rxWait)
    /\ rxWait' = 0
    /\ IF rxWait \in Tasks THEN runOn' \in WakeQueues ELSE runOn' = 0

LockNext ==
    \/ ConnectLock
    \/ ConnectTransport
    \/ ConnectRecv
    \/ ConnectJitter
    \/ ConnectAuth
    \/ \E t \in Tasks : ReconLock(t)
    \/ \E t \in Tasks : ReconTransport(t)
    \/ \E t \in Tasks : ReconRecv(t)
    \/ \E t \in Tasks : ReconAuth(t)
    \/ \E t \in Tasks : ReconInstall(t)
    \/ \E t \in Tasks : ReconGranted(t)
    \/ \E t \in Tasks : ReconWake(t)
    \/ PullLockData
    \/ PullLockRx
    \/ LockedPoll

\* a task that can take its next step on some thread takes it, and the thread
\* inside poll_next keeps running; nothing is assumed of the gateway, which
\* may refuse every connection, nor of the consumer calling poll_next again
LockFairness ==
    /\ \A t \in Tasks :
          WF_vars(ReconLock(t) \/ ReconTransport(t) \/ ReconRecv(t)
                    \/ ReconAuth(t) \/ ReconInstall(t) \/ ReconGranted(t)
                    \/ ReconWake(t))
    /\ WF_vars(PullLockRx \/ LockedPoll)

LockSpec == Init /\ [][LockNext]_vars /\ LockFairness

\* who can own or wait for a mutex: the reconect tasks and the consumer
Threads == Tasks \cup {Consumer}

\* <<p, q>>: p has asked for a mutex that q owns, or p was handed rx and can
\* run only on the thread of q, which is inside poll_next
WaitsFor ==
    {<<t, pingLock>> : t \in {u \in Tasks : task[u].pc = "lock" /\ pingLock # 0}}
    \cup (IF rxWait # 0 THEN {<<rxWait, rxLock>>} ELSE {})
    \cup {<<t, Consumer>> : t \in {u \in Tasks : /\ task[u].pc = "rxwait"
                                                  /\ rxLock = u
                                                  /\ runOn = Consumer
                                                  /\ InPollNext}}

\* a set of threads each of which waits for another one of the set
CyclicWait ==
    \E S \in SUBSET Threads :
        /\ S # {}
        /\ \A p \in S : \E q \in S : <<p, q>> \in WaitsFor

\* reconect asks for rx only while it owns ping; poll_next asks for rx only
\* while it owns data, and never owns ping
LockOrder ==
    /\ \A t \in Tasks :
          task[t].pc \in {"transport", "hello", "auth"} \cup InstallPcs
              => pingLock = t
    /\ rxLock = Consumer => dataLock = Consumer
    /\ rxWait = Consumer => dataLock = Consumer
    /\ rxLock \in Tasks => pingLock = rxLock
    /\ rxWait \in Tasks => pingLock = rxWait
    /\ pingLock # Consumer

\* C20: the locks are taken in the orders ping then rx (connect, reconect)
\* and data then rx (poll_next), no set of threads waits in a cycle, and every
\* request is granted: a reconect waiting for ping gets it, a reconect waiting
\* for rx installs and ends, poll_next waiting for rx gets it
C20_NoDeadlock ==
    /\ [](LockOrder /\ ~CyclicWait)
    /\ \A t \in Tasks : (task[t].pc = "lock") ~> (task[t].pc # "lock")
    /\ (rxWait \in Tasks) ~> (rxLock \in Tasks)
    /\ (\E t \in Tasks : task[t].pc \in InstallPcs) ~> (pingLock = 0)
    /\ (dataLock = Consumer) ~> (rxLock = Consumer)

\* C21: a decoded MessageCreate or PresenceUpdate leaves the cache as it was,
\* a MessageCreate yields Event::Message of its frame whatever came before, and
\* a cache entry changes only in the step that decodes a UserUpdate for that
\* user (to the frame's record) or an Authenticated frame listing that user,
\* so the old_status read from the cache never comes from a PresenceUpdate
C21_FramesLeaveCache ==
    [][/\ \A m \in Msgs :
            DecodeStep([op |-> "MESSAGE_CREATE", msg |-> m]) =>
                /\ data' = data
                /\ last'.event = [type |-> "Message", msg |-> m]
       /\ \A id \in UserIds, st \in Statuses :
            DecodeStep([op |-> "PRESENCE_UPDATE", user_id |-> id,
                        status |-> st]) => data' = data
       /\ \A i \in UserIds :
            data'.users[i] # data.users[i] =>
                \/ /\ last'.op = "USER_UPDATE"
                   /\ last'.event.user = data'.users[i]
                \/ /\ last'.op = "AUTHENTICATED"
                   /\ i \in last'.authIds
       /\ data'.user # data.user => last'.op = "AUTHENTICATED"]_vars

\* C21 witness: a PresenceUpdate with a new status for a cached user was
\* yielded and the cache still holds the status it had before
C21_Witness ==
    /\ last.op = "PRESENCE_UPDATE"
    /\ data.users[last.event.user_id] # NoUser
    /\ data.users[last.event.user_id].status = last.event.old_status
    /\ last.event.status # last.event.old_status

=============================================================================
